---- MODULE Spec2Model ----
(***************************************************************************)
(* Model of the command dispatcher of akb/go-cli: func Main of src/cli.go  *)
(* (lines 281-349), the System type it hands to the action (lines          *)
(* 215-272) and the part of the Go standard library it relies on           *)
(* (flag.FlagSet.Parse with flag.ExitOnError, log.Logger.Fatal, os.Exit,   *)
(* strings.Split, slice indexing).                                         *)
(*                                                                         *)
(* Strings are sequences of one-character strings, so that head[0], the    *)
(* flag syntax and strings.Join are computed and not assumed.              *)
(***************************************************************************)
EXTENDS Integers, Sequences, FiniteSets, TLC

\* ------------------------------------------------------------------ bounds
\* Longest argument vector enumerated token by token.
MaxArgs == 3
\* Largest status an action returns in the status specification.
MaxStatus == 255

\* ------------------------------------------------------------------ tokens
Empty    == << >>
Prog     == << "p" >>
NameA    == << "a" >>
NameB    == << "b" >>
Val      == << "1" >>
Pos      == << "q" >>
FlagX    == << "-", "x" >>
FlagXEq  == << "-", "x", "=", "1" >>
FlagBad  == << "-", "-", "z" >>
FlagH    == << "-", "h" >>
DashDash == << "-", "-" >>

Tokens == { Empty, Prog, NameA, NameB, Val, FlagX, FlagXEq, FlagBad, FlagH, DashDash }

\* The argument vectors of the scenarios of the specification (sections 8).
ScenarioA == << Prog, NameA, FlagX, Val, Pos >>
ScenarioAEq == << Prog, NameA, FlagXEq, Pos >>
ScenarioB == << Prog, FlagBad >>
ScenarioD == << Prog, NameA, NameB, Pos >>
\* Flag tokens before and after the subcommand and around a positional token.
Interleaved == << Prog, FlagXEq, NameA, FlagXEq, Pos, DashDash, Pos >>
ScenarioVectors ==
    { ScenarioA, ScenarioAEq, ScenarioB, ScenarioD, Interleaved, << Prog >>, << Prog, NameA >> }

RECURSIVE SeqsUpTo(_, _)
SeqsUpTo(S, n) ==
    IF n = 0 THEN { << >> }
    ELSE LET shorter == SeqsUpTo(S, n - 1)
         IN  shorter \cup { Append(s, t) : s \in { u \in shorter : Len(u) = n - 1 }, t \in S }

\* os.Args: every vector of at most MaxArgs tokens, and the scenario vectors.
ArgVectors == SeqsUpTo(Tokens, MaxArgs) \cup ScenarioVectors

\* os.Environ(): entries "K=V", and an entry without '='.
EnvKV    == << "K", "=", "V" >>
EnvNoEq  == << "K" >>
Environs == { << >>, << EnvKV >>, << EnvKV, EnvNoEq >> }

\* ------------------------------------------------------------ command tree
\* The command values Main can be given.  Each holds a subset of the
\* capabilities HasSubcommands, HasFlags and Action (cli.go 151-175).
Cmds == { "rootA", "leafX", "rootD", "branchA", "leafB", "rootB", "loopC" }

\* A CLI value: a nil map, or a map from names to commands.
NilCLI == [ isNil |-> TRUE, map |-> << >> ]
MkCLI(m) == [ isNil |-> FALSE, map |-> m ]

\* The methods of each command's type; every command has Help.
\* rootA is the shape of testMainCommand and leafX of testSubcommand, rootD
\* and branchA are routers without an action, leafB is the shape of
\* testFatalCmd (Help and Command only), rootB has flags and no children,
\* loopC is its own subcommand (a command graph with a cycle).
Methods(c) ==
    CASE c = "rootA"   -> { "Help", "Flags", "Subcommands", "Command" }
      [] c = "leafX"   -> { "Help", "Flags", "Subcommands", "Command" }
      [] c = "rootD"   -> { "Help", "Flags", "Subcommands" }
      [] c = "branchA" -> { "Help", "Subcommands" }
      [] c = "leafB"   -> { "Help", "Command" }
      [] c = "rootB"   -> { "Help", "Flags", "Command" }
      [] c = "loopC"   -> { "Help", "Subcommands", "Command" }

\* cmd.(HasSubcommands): does the command have a Subcommands method.
HasSubcommands(c) == "Subcommands" \in Methods(c)

\* b.Subcommands(): testMainCommand returns CLI{"testsub": subc},
\* testSubcommand returns nil.
Subcommands(c) ==
    CASE c = "rootA"   -> MkCLI([ n \in { NameA } |-> "leafX" ])
      [] c = "rootD"   -> MkCLI([ n \in { NameA } |-> "branchA" ])
      [] c = "branchA" -> MkCLI([ n \in { NameB } |-> "leafB" ])
      [] c = "loopC"   -> MkCLI([ n \in { NameA } |-> "loopC" ])
      [] OTHER         -> NilCLI

\* cmd.(HasFlags).
HasFlags(c) == "Flags" \in Methods(c)

\* What b.Flags(f) declares on the FlagSet: flag name -> kind of value.
FlagDecl(c) ==
    CASE c \in { "leafX", "rootD" } -> [ n \in { << "x" >> } |-> "string" ]
      [] OTHER                      -> << >>

\* cmd.(Action): rootD and branchA are pure routers.
IsActionAlways(c) == TRUE
IsAction(c) == "Command" \in Methods(c)

\* The commands that can be handed to Main as the root.
Roots == { "rootA", "rootD", "rootB", "leafB", "loopC" }

\* ------------------------------------------------------- library functions
\* strings.Split(e, "="): the pieces of e between the separators.
RECURSIVE SplitFrom(_, _, _)
SplitFrom(e, sep, cur) ==
    IF Len(e) = 0 THEN << cur >>
    ELSE IF Head(e) = sep THEN << cur >> \o SplitFrom(Tail(e), sep, << >>)
    ELSE SplitFrom(Tail(e), sep, Append(cur, Head(e)))

Split(e, sep) == SplitFrom(e, sep, << >>)

\* strings.Join([]string{name, head}, " ").
Join2(name, head) == name \o << " " >> \o head

\* The position of the first '=' of a flag name at index 2 or later, or 0
\* (flag.parseOne: "equals cannot be first").
EqualsAt(name) ==
    LET at == { i \in 2..Len(name) : name[i] = "=" }
    IN  IF at = {} THEN 0 ELSE CHOOSE i \in at : \A j \in at : i <= j

\* flag.FlagSet.parseOne on the remaining arguments fa, with the declared
\* flags formal and the values set so far: one flag is consumed (seen), or the
\* parse stops with or without an error.
ParseOne(fa, formal, vals) ==
    LET stop(e, rest) == [ seen |-> FALSE, err |-> e, args |-> rest, vals |-> vals ]
    IN
    IF Len(fa) = 0 THEN stop("nil", fa)
    ELSE
    LET s == Head(fa) IN
    IF Len(s) < 2 \/ s[1] # "-" THEN stop("nil", fa)
    ELSE IF s[2] = "-" /\ Len(s) = 2 THEN stop("nil", Tail(fa))
    ELSE
    LET numMinuses == IF s[2] = "-" THEN 2 ELSE 1
        name0      == SubSeq(s, numMinuses + 1, Len(s))
    IN
    IF Len(name0) = 0 \/ name0[1] = "-" \/ name0[1] = "=" THEN stop("bad flag syntax", fa)
    ELSE
    LET eq       == EqualsAt(name0)
        name     == IF eq = 0 THEN name0 ELSE SubSeq(name0, 1, eq - 1)
        rest     == Tail(fa)
    IN
    IF name \notin DOMAIN formal
      THEN IF name = << "h", "e", "l", "p" >> \/ name = << "h" >>
             THEN stop("ErrHelp", rest)
             ELSE stop("flag provided but not defined", rest)
    ELSE IF eq # 0
      THEN [ seen |-> TRUE, err |-> "nil", args |-> rest,
             vals |-> [ n \in DOMAIN vals \cup { name } |->
                          IF n = name THEN SubSeq(name0, eq + 1, Len(name0)) ELSE vals[n] ] ]
    ELSE IF Len(rest) > 0
      THEN [ seen |-> TRUE, err |-> "nil", args |-> Tail(rest),
             vals |-> [ n \in DOMAIN vals \cup { name } |->
                          IF n = name THEN Head(rest) ELSE vals[n] ] ]
    ELSE stop("flag needs an argument", rest)

\* flag.FlagSet.Parse: parseOne until it stops.
RECURSIVE Parse(_, _, _)
Parse(fa, formal, vals) ==
    LET r == ParseOne(fa, formal, vals)
    IN  IF r.seen THEN Parse(r.args, formal, r.vals) ELSE r

\* flag.NewFlagSet(name, flag.ExitOnError): what Parse does with an error.
ErrorHandling == "ExitOnError"

\* The status os.Exit is given by Parse under ExitOnError: 2, and for
\* ErrHelp 0 since Go 1.15 and 2 before.
ParseExitCodes(err) == IF err = "ErrHelp" THEN { 0, 2 } ELSE { 2 }

\* -------------------------------------------------------------------- state
VARIABLES
    osArgs,      \* os.Args, the process's global argument vector
    argv,        \* the argument vector the caller of this invocation of Main
                 \* stored in os.Args for it (cli_test.go 64)
    osEnviron,   \* os.Environ(), the process's environment entries
    mainCmd,     \* the command handed to Main
    pc,          \* where Main is: "scan", "flags", "env", "command", and the
                 \* ends "returned" (to the caller), "exit" (os.Exit), "panic"
    cmd,         \* Main's local cmd
    args,        \* Main's local args (positional tokens)
    flags,       \* Main's local flags (flag tokens)
    name,        \* Main's local name (the origin)
    tail,        \* Main's local tail (the tokens still to scan)
    flagVals,    \* the values the FlagSet bound, flag name -> value
    env,         \* Main's local env
    status,      \* the status Main returned or the process exited with
    calls,       \* the calls of Command made so far: command, origin, args, env
                 \* and what the action did
    helpRan,     \* how many times Help ran, per command
    flagsRan,    \* how many times Flags ran, per command
    stdErr,      \* what was written to os.Stderr
    logOut,      \* what was written through the injected logger
    stdOut       \* what was written to the injected out stream

vars == << osArgs, argv, osEnviron, mainCmd, pc, cmd, args, flags, name, tail,
           flagVals, env, status, calls, helpRan, flagsRan, stdErr, logOut, stdOut >>

\* What an action (user code) does when called: it may print to the output
\* stream, log a message, make a fatal log call, and otherwise returns a status.
Outcome(s, print, log, fatal) == [ status |-> s, print |-> print, log |-> log, fatal |-> fatal ]

Outcomes ==
    { Outcome(0, FALSE, FALSE, FALSE), Outcome(0, TRUE, FALSE, FALSE),
      Outcome(1, FALSE, FALSE, FALSE), Outcome(42, FALSE, TRUE, FALSE),
      Outcome(255, FALSE, FALSE, FALSE), Outcome(0, FALSE, FALSE, TRUE) }

StatusOutcomes ==
    { Outcome(s, FALSE, FALSE, FALSE) : s \in (0..MaxStatus) \cup { -1, MaxStatus + 1 } }
        \cup { Outcome(0, FALSE, FALSE, TRUE) }

InitWith(vectors) ==
    /\ osArgs \in vectors
    /\ argv = osArgs
    /\ osEnviron \in Environs
    /\ mainCmd \in Roots
    /\ pc = "scan"
    /\ cmd = mainCmd
    /\ args = << >>
    /\ flags = << >>
    /\ name = << >>
    /\ tail = osArgs
    /\ flagVals = << >>
    /\ env = << >>
    /\ status = 0
    /\ calls = << >>
    /\ helpRan = [ c \in Cmds |-> 0 ]
    /\ flagsRan = [ c \in Cmds |-> 0 ]
    /\ stdErr = << >>
    /\ logOut = << >>
    /\ stdOut = << >>

Init == InitWith(ArgVectors)

\* ---------------------------------------------------------------- the scan
\* The subcommands of the current command (cli.go 289-292).
SubcommandsOf(c) == IF HasSubcommands(c) THEN Subcommands(c) ELSE NilCLI

\* A variant of ScanToken that starts the flag list afresh at each subcommand.
ScanTokenFreshFlags(c, nm, as, fs, head) ==
    LET subcommands == IF "Subcommands" \in Methods(c) THEN Subcommands(c) ELSE NilCLI
        same        == [ cmd |-> c, name |-> nm, args |-> as, flags |-> fs ]
    IN
    IF head[1] = "-" THEN [ same EXCEPT !.flags = Append(fs, head) ]
    ELSE IF subcommands.isNil THEN [ same EXCEPT !.args = Append(as, head) ]
    ELSE IF head \in DOMAIN subcommands.map
      THEN [ same EXCEPT !.cmd   = subcommands.map[head],
                         !.name  = IF Len(nm) = 0 THEN head ELSE Join2(nm, head),
                         !.flags = << >> ]
    ELSE IF head # osArgs[1] THEN [ same EXCEPT !.args = Append(as, head) ]
    ELSE same

\* One iteration of the loop's classification (cli.go 294-310) on the token
\* head: the new cmd, name, args and flags.
ScanToken(c, nm, as, fs, head) ==
    LET subcommands == SubcommandsOf(c)
        same        == [ cmd |-> c, name |-> nm, args |-> as, flags |-> fs ]
    IN
    IF head[1] = "-" THEN [ same EXCEPT !.flags = Append(fs, head) ]
    ELSE IF subcommands.isNil THEN [ same EXCEPT !.args = Append(as, head) ]
    ELSE IF head \in DOMAIN subcommands.map
      THEN [ same EXCEPT !.cmd  = subcommands.map[head],
                         !.name = IF Len(nm) = 0 THEN head ELSE Join2(nm, head) ]
    ELSE IF head # osArgs[1] THEN [ same EXCEPT !.args = Append(as, head) ]
    ELSE same

\* Indexing an empty slice or an empty string panics (cli.go 287, 294).
IndexOutOfRange == IF Len(tail) = 0 THEN TRUE ELSE Len(tail[1]) = 0

ScanPanic ==
    /\ pc = "scan"
    /\ IndexOutOfRange
    /\ pc' = "panic"
    /\ UNCHANGED << osArgs, argv, osEnviron, mainCmd, cmd, args, flags, name, tail,
                    flagVals, env, status, calls, helpRan, flagsRan, stdErr, logOut, stdOut >>

Scan ==
    /\ pc = "scan"
    /\ ~IndexOutOfRange
    /\ LET r == ScanToken(cmd, name, args, flags, tail[1])
       IN  /\ cmd' = r.cmd
           /\ name' = r.name
           /\ args' = r.args
           /\ flags' = r.flags
    /\ IF Len(tail) = 1
         THEN pc' = "flags" /\ tail' = tail
         ELSE pc' = "scan" /\ tail' = Tail(tail)
    /\ UNCHANGED << osArgs, argv, osEnviron, mainCmd, flagVals, env, status, calls,
                    helpRan, flagsRan, stdErr, logOut, stdOut >>

\* ------------------------------------------------------------ flag binding
\* Where Main goes once the flags are bound (cli.go 330, 348): to the action
\* when the command has one, and otherwise it returns 0.
AfterFlags ==
    IF IsAction(cmd)
      THEN pc' = "env" /\ status' = status
      ELSE pc' = "returned" /\ status' = 0

\* A variant of BindFlags whose FlagSet has the root's Help as its Usage.
BindFlagsRootHelp ==
    /\ pc = "flags"
    /\ IF ~HasFlags(cmd)
         THEN /\ AfterFlags
              /\ UNCHANGED << flagVals, flagsRan, helpRan, stdErr >>
         ELSE LET r == Parse(flags, FlagDecl(cmd), << >>)
              IN  /\ flagsRan' = [ flagsRan EXCEPT ![cmd] = @ + 1 ]
                  /\ IF r.err = "nil"
                       THEN /\ flagVals' = r.vals
                            /\ AfterFlags
                            /\ UNCHANGED << helpRan, stdErr >>
                       ELSE /\ flagVals' = r.vals
                            /\ helpRan' = [ helpRan EXCEPT ![mainCmd] = @ + 1 ]
                            /\ IF ErrorHandling = "ExitOnError"
                                 THEN /\ pc' = "exit"
                                      /\ status' \in ParseExitCodes(r.err)
                                      /\ stdErr' = IF r.err = "ErrHelp" THEN stdErr
                                                   ELSE Append(stdErr, r.err)
                                 ELSE /\ pc' = "returned"
                                      /\ status' = 1
                                      /\ stdErr' = stdErr \o
                                           (IF r.err = "ErrHelp" THEN << >> ELSE << r.err >>)
                                           \o << "Failed to parse command-line arguments" >>
    /\ UNCHANGED << osArgs, argv, osEnviron, mainCmd, cmd, args, flags, name, tail,
                    env, calls, logOut, stdOut >>

\* cli.go 320-328: a command with the Flags method declares its flags on a
\* new FlagSet and the collected flag tokens are parsed.  On an error Parse
\* prints it (except for ErrHelp), calls f.Usage, which is cmd.Help, and under
\* ExitOnError exits; with any other error handling Main prints to os.Stderr
\* and returns 1.
BindFlags ==
    /\ pc = "flags"
    /\ IF ~HasFlags(cmd)
         THEN /\ AfterFlags
              /\ UNCHANGED << flagVals, flagsRan, helpRan, stdErr >>
         ELSE LET r == Parse(flags, FlagDecl(cmd), << >>)
              IN  /\ flagsRan' = [ flagsRan EXCEPT ![cmd] = @ + 1 ]
                  /\ IF r.err = "nil"
                       THEN /\ flagVals' = r.vals
                            /\ AfterFlags
                            /\ UNCHANGED << helpRan, stdErr >>
                       ELSE /\ flagVals' = r.vals
                            /\ helpRan' = [ helpRan EXCEPT ![cmd] = @ + 1 ]
                            /\ IF ErrorHandling = "ExitOnError"
                                 THEN /\ pc' = "exit"
                                      /\ status' \in ParseExitCodes(r.err)
                                      /\ stdErr' = IF r.err = "ErrHelp" THEN stdErr
                                                   ELSE Append(stdErr, r.err)
                                 ELSE /\ pc' = "returned"
                                      /\ status' = 1
                                      /\ stdErr' = stdErr \o
                                           (IF r.err = "ErrHelp" THEN << >> ELSE << r.err >>)
                                           \o << "Failed to parse command-line arguments" >>
    /\ UNCHANGED << osArgs, argv, osEnviron, mainCmd, cmd, args, flags, name, tail,
                    env, calls, logOut, stdOut >>

\* ------------------------------------------------------------- environment
\* cli.go 331-335: split[1] of an entry without '=' is out of range.
EnvPanics == \E i \in 1..Len(osEnviron) : Len(Split(osEnviron[i], "=")) < 2

\* The map the loop builds: a later entry overwrites an earlier one.
EnvMap ==
    LET keys == { Split(osEnviron[i], "=")[1] : i \in 1..Len(osEnviron) }
        last(k) == CHOOSE i \in 1..Len(osEnviron) :
                      /\ Split(osEnviron[i], "=")[1] = k
                      /\ \A j \in 1..Len(osEnviron) :
                            Split(osEnviron[j], "=")[1] = k => j <= i
    IN  [ k \in keys |-> Split(osEnviron[last(k)], "=")[2] ]

BuildEnv ==
    /\ pc = "env"
    /\ IF EnvPanics
         THEN pc' = "panic" /\ env' = env
         ELSE pc' = "command" /\ env' = EnvMap
    /\ UNCHANGED << osArgs, argv, osEnviron, mainCmd, cmd, args, flags, name, tail,
                    flagVals, status, calls, helpRan, flagsRan, stdErr, logOut, stdOut >>

\* ------------------------------------------------------------------ action
\* cli.go 343-348: a status other than 0 is returned as it is.
ReturnOne(s) == IF s # 0 THEN 1 ELSE 0
ReturnStatus(s) == IF s # 0 THEN s ELSE 0

\* The messages an action writes.
FatalMsg == "FUBRRRR"
LogMsg   == "boom"
OutMsg   == "output"

\* A variant of Invoke that calls the action of the root command.
InvokeOnRoot(o) ==
    /\ pc = "command"
    /\ calls' = Append(calls, [ cmd |-> mainCmd, origin |-> name, args |-> args, env |-> env,
                               outcome |-> o ])
    /\ stdOut' = IF o.print THEN Append(stdOut, OutMsg) ELSE stdOut
    /\ IF o.fatal
         THEN /\ logOut' = Append(logOut, FatalMsg)
              /\ pc' = "exit"
              /\ status' = 1
         ELSE /\ logOut' = IF o.log THEN Append(logOut, LogMsg) ELSE logOut
              /\ pc' = "returned"
              /\ status' = ReturnStatus(o.status)
    /\ UNCHANGED << osArgs, argv, osEnviron, mainCmd, cmd, args, flags, name, tail,
                    flagVals, env, helpRan, flagsRan, stdErr >>

\* cli.go 337-345: the context gets the origin, and the action is called with
\* the positional tokens and a System of the injected streams.  A fatal log
\* call (cli.go 254-264) is log.Logger.Fatal: it writes the message to the
\* logger and calls os.Exit(1).
Invoke(o) ==
    /\ pc = "command"
    /\ calls' = Append(calls, [ cmd |-> cmd, origin |-> name, args |-> args, env |-> env,
                               outcome |-> o ])
    /\ stdOut' = IF o.print THEN Append(stdOut, OutMsg) ELSE stdOut
    /\ IF o.fatal
         THEN /\ logOut' = Append(logOut, FatalMsg)
              /\ pc' = "exit"
              /\ status' = 1
         ELSE /\ logOut' = IF o.log THEN Append(logOut, LogMsg) ELSE logOut
              /\ pc' = "returned"
              /\ status' = ReturnStatus(o.status)
    /\ UNCHANGED << osArgs, argv, osEnviron, mainCmd, cmd, args, flags, name, tail,
                    flagVals, env, helpRan, flagsRan, stdErr >>

Command == \E o \in Outcomes : Invoke(o)

CommandStatus == \E o \in StatusOutcomes : Invoke(o)

\* ----------------------------------------------------------- specifications
Next == ScanPanic \/ Scan \/ BindFlags \/ BuildEnv \/ Command

Spec == Init /\ [][Next]_vars

\* The same program on the scenario vectors, with an action that returns any
\* status of 0..MaxStatus, and a status below and above that range.
InitStatus == InitWith(ScenarioVectors)

NextStatus == Scan \/ BindFlags \/ BuildEnv \/ CommandStatus

SpecStatus == InitStatus /\ [][NextStatus]_vars

\* Two invocations in one process.  Main takes no argument vector: a caller
\* gives it one by assigning the global os.Args (cli_test.go 64 and 109), so
\* when this invocation starts os.Args holds what the last caller to write
\* stored, its own vector or the other invocation's, and the other caller may
\* assign os.Args again while this invocation scans.
InitShared ==
    /\ argv \in ScenarioVectors
    /\ osArgs \in ScenarioVectors
    /\ osEnviron \in Environs
    /\ mainCmd \in Roots
    /\ pc = "scan"
    /\ cmd = mainCmd
    /\ args = << >>
    /\ flags = << >>
    /\ name = << >>
    /\ tail = osArgs
    /\ flagVals = << >>
    /\ env = << >>
    /\ status = 0
    /\ calls = << >>
    /\ helpRan = [ c \in Cmds |-> 0 ]
    /\ flagsRan = [ c \in Cmds |-> 0 ]
    /\ stdErr = << >>
    /\ logOut = << >>
    /\ stdOut = << >>

\* The caller of the other invocation assigns os.Args.
OtherSetsArgs ==
    /\ pc = "scan"
    /\ \E v \in ScenarioVectors : v # osArgs /\ osArgs' = v
    /\ UNCHANGED << argv, osEnviron, mainCmd, pc, cmd, args, flags, name, tail,
                    flagVals, env, status, calls, helpRan, flagsRan, stdErr, logOut, stdOut >>

NextShared == OtherSetsArgs \/ Scan \/ BindFlags \/ BuildEnv \/ Command

SpecShared == InitShared /\ [][NextShared]_vars

\* ================================================================== claims
Terminated == pc \in { "returned", "exit", "panic" }

\* The scan loop has ended: Main is past it, and not by a panic inside it.
ScanEnded == pc \notin { "scan", "flags" } /\ ~(pc = "panic" /\ IndexOutOfRange)

\* A token that begins with the flag prefix.
IsFlagToken(t) == IF Len(t) = 0 THEN FALSE ELSE t[1] = "-"

\* The child names of a command.
ChildNames(c) == DOMAIN SubcommandsOf(c).map

\* The chain of subcommand names the leading non-flag tokens form from
\* command c: it ends at the first non-flag token that names no child.
RECURSIVE LeadingChain(_, _)
LeadingChain(c, toks) ==
    IF Len(toks) = 0 THEN << >>
    ELSE IF IsFlagToken(Head(toks)) THEN LeadingChain(c, Tail(toks))
    ELSE IF Head(toks) \in ChildNames(c)
      THEN << Head(toks) >> \o LeadingChain(SubcommandsOf(c).map[Head(toks)], Tail(toks))
    ELSE << >>

\* The tokens that follow the leading chain, and the command it ends at.
RECURSIVE AfterChain(_, _)
AfterChain(c, toks) ==
    IF Len(toks) = 0 THEN [ cmd |-> c, rest |-> << >> ]
    ELSE IF IsFlagToken(Head(toks)) THEN AfterChain(c, Tail(toks))
    ELSE IF Head(toks) \in ChildNames(c)
      THEN AfterChain(SubcommandsOf(c).map[Head(toks)], Tail(toks))
    ELSE [ cmd |-> c, rest |-> toks ]

\* No token after the chain names a child of the command the chain ends at.
ChainIsWholeRoute(c, toks) ==
    LET a == AfterChain(c, toks)
    IN  \A i \in 1..Len(a.rest) : a.rest[i] \notin ChildNames(a.cmd)

RECURSIVE JoinAll(_)
JoinAll(names) ==
    IF Len(names) = 0 THEN << >>
    ELSE IF Len(names) = 1 THEN names[1]
    ELSE names[1] \o << " " >> \o JoinAll(Tail(names))

\* C1: the origin in the context passed to the action is the chain of
\* subcommand names formed by the leading non-flag tokens after index 0,
\* joined by single spaces, whatever the token at index 0.
C1_OriginIsLeadingChain ==
    \A i \in 1..Len(calls) :
        ChainIsWholeRoute(mainCmd, Tail(osArgs))
            => calls[i].origin = JoinAll(LeadingChain(mainCmd, Tail(osArgs)))

\* C2: the iteration that scans the token at index 0 appends nothing to the
\* positional list, for every command tree.
C2_IndexZeroNeverPositional ==
    [][(pc = "scan" /\ tail = osArgs) => args' = args]_vars

\* C3: on [prog, sub, -x, v, pos] with a leaf that declares the value-taking
\* flag x, x is bound to v, the positional list is [pos], the action runs
\* exactly once and Main returns 0 (when the action returns 0).
C3_ScenarioA ==
    (osArgs = ScenarioA /\ mainCmd = "rootA" /\ osEnviron = << >> /\ Terminated)
        => /\ flagVals = [ n \in { << "x" >> } |-> Val ]
           /\ Len(calls) = 1
           /\ calls[1].cmd = "leafX"
           /\ calls[1].args = << Pos >>
           /\ (calls[1].outcome = Outcome(0, FALSE, FALSE, FALSE)
                 => pc = "returned" /\ status = 0)

\* The collected flag tokens fail to parse against the resolved command's
\* declaration (meaningful once the scan has ended).
ParseFails == IF HasFlags(cmd) THEN Parse(flags, FlagDecl(cmd), << >>).err # "nil" ELSE FALSE

\* C4: when the flag tokens fail to parse, Main returns 1 to its caller and
\* the action is never invoked (shown on the vectors whose token at index 0
\* is not itself a flag token).
C4_ParseFailureReturnsOne ==
    (ScanEnded /\ ~IsFlagToken(osArgs[1]) /\ ParseFails)
        => pc = "returned" /\ status = 1 /\ calls = << >>

\* The name of a flag token: without its minuses and its "=value".
FlagName(t) ==
    LET body == IF Len(t) >= 2 /\ t[2] = "-" THEN SubSeq(t, 3, Len(t)) ELSE SubSeq(t, 2, Len(t))
        eq   == EqualsAt(body)
    IN  IF eq = 0 THEN body ELSE SubSeq(body, 1, eq - 1)

\* A collected flag token names a flag the resolved command does not declare
\* (the terminator "--" and the help flags aside).
HasUndeclaredFlag ==
    \E i \in 1..Len(flags) :
        /\ FlagName(flags[i]) # << >>
        /\ FlagName(flags[i]) \notin { << "h" >>, << "h", "e", "l", "p" >> }
        /\ FlagName(flags[i]) \notin DOMAIN FlagDecl(cmd)

\* C5: with an undeclared flag token in the vector, dispatch ends with status
\* 1, no action is invoked, the log stream holds a diagnostic and the output
\* stream holds nothing (shown on the vectors whose token at index 0 is not
\* itself a flag token).
C5_UndeclaredFlagFails ==
    (pc \in { "returned", "exit" } /\ ~IsFlagToken(osArgs[1]) /\ HasUndeclaredFlag)
        => status = 1 /\ calls = << >> /\ logOut # << >> /\ stdOut = << >>

\* C6: no invocation ends in a panic or in a process exit made by Main
\* itself; every one returns a status to its caller.
C6_AlwaysReturnsStatus ==
    pc # "panic" /\ ~(pc = "exit" /\ calls = << >>)

\* C7: the status the action returns is the status Main returns.
C7_StatusPassedThrough ==
    (pc = "returned" /\ Len(calls) > 0)
        => status = calls[Len(calls)].outcome.status

C7_Witness ==
    /\ pc = "returned"
    /\ Len(calls) = 1
    /\ calls[1].outcome.status = 42
    /\ status = 42

\* C8: after a fatal log call by the action, Main returns 1 to its caller,
\* with the message on the log stream.
C8_FatalReturnsOne ==
    (\E i \in 1..Len(calls) : calls[i].outcome.fatal)
        => /\ pc = "returned"
           /\ status = 1
           /\ \E j \in 1..Len(logOut) : logOut[j] = FatalMsg

\* C9: when the command resolved at the end of the scan has no action and
\* its flags parse, Main returns 0 and no action is invoked.
C9_RouterReturnsZero ==
    (ScanEnded /\ "Command" \notin Methods(cmd) /\ ~ParseFails)
        => pc = "returned" /\ status = 0 /\ calls = << >>

C9_Witness ==
    /\ pc = "returned"
    /\ cmd = "rootD"
    /\ flagsRan["rootD"] = 1
    /\ flagVals = [ n \in { << "x" >> } |-> Val ]
    /\ status = 0
    /\ calls = << >>

\* C10: a non-flag token after index 0 that names no child of the current
\* command is appended to the positional list, also when its text equals the
\* token at index 0.
C10_RoutingMissIsPositional ==
    [][(/\ pc = "scan"
        /\ Len(tail) < Len(osArgs)
        /\ Len(tail[1]) > 0
        /\ ~IsFlagToken(tail[1])
        /\ tail[1] \notin ChildNames(cmd))
          => args' = Append(args, tail[1])]_vars

\* How many times Command was called on command c.
CallsOn(c) == Cardinality({ i \in 1..Len(calls) : calls[i].cmd = c })

\* C11: when Main returns, Flags and Command ran exactly once on the command
\* the scan resolved (for each of the two methods it has) and on no other
\* command, and Help ran on no command.
C11_OnlyResolvedCommandRuns ==
    pc = "returned"
        => \A c \in Cmds :
              /\ flagsRan[c] = (IF c = cmd /\ "Flags" \in Methods(c) THEN 1 ELSE 0)
              /\ CallsOn(c) = (IF c = cmd /\ "Command" \in Methods(c) THEN 1 ELSE 0)
              /\ helpRan[c] = 0

\* TestSubcommand: the child is resolved, the root's methods do not run.
C11_Witness ==
    /\ pc = "returned"
    /\ osArgs = << Prog, NameA >>
    /\ mainCmd = "rootA"
    /\ cmd = "leafX"
    /\ flagsRan["leafX"] = 1
    /\ CallsOn("leafX") = 1
    /\ flagsRan["rootA"] = 0
    /\ CallsOn("rootA") = 0

\* C12: Main writes its diagnostics through the injected logger only: nothing
\* reaches os.Stderr, and nothing reaches the output stream unless the action
\* wrote it.
C12_DiagnosticsThroughLogger ==
    (IF Len(osArgs) = 0 THEN FALSE ELSE ~IsFlagToken(osArgs[1]))
        => /\ stdErr = << >>
           /\ (calls = << >> => stdOut = << >>)

\* C13: the flag tokens handed to the flag parser are the flag-prefixed tokens
\* of the argument vector, in their order in the vector.
C13_FlagsInOriginalOrder ==
    (pc = "flags" \/ ScanEnded) => flags = SelectSeq(osArgs, IsFlagToken)

\* Flags before the subcommand, after it and around a positional token were
\* handed to the parser of the resolved command.
C13_Witness ==
    /\ osArgs = Interleaved
    /\ mainCmd = "rootA"
    /\ cmd = "leafX"
    /\ flagsRan["leafX"] = 1
    /\ flags = << FlagXEq, FlagXEq, DashDash >>
    /\ args = << Pos, Pos >>

\* C14: the status Main returns lies in 0..255, whatever the action returns.
C14_StatusInRange ==
    pc = "returned" => status \in 0..255

\* Scanning toks from command c, some non-flag token names no child of a
\* command that has subcommands.
RECURSIVE RoutingMiss(_, _)
RoutingMiss(c, toks) ==
    IF Len(toks) = 0 THEN FALSE
    ELSE IF IsFlagToken(Head(toks)) THEN RoutingMiss(c, Tail(toks))
    ELSE IF Head(toks) \in ChildNames(c)
      THEN RoutingMiss(SubcommandsOf(c).map[Head(toks)], Tail(toks))
    ELSE IF ~SubcommandsOf(c).isNil THEN TRUE
    ELSE RoutingMiss(c, Tail(toks))

\* C15: when a non-flag token after index 0 finds no subcommand at a command
\* that has subcommands, Main has called Help by the time it ends.
C15_RoutingMissCallsHelp ==
    (/\ pc \in { "returned", "exit" }
     /\ osArgs[1] \notin ChildNames(mainCmd)
     /\ RoutingMiss(mainCmd, Tail(osArgs)))
        => \E c \in Cmds : helpRan[c] > 0

\* A collected flag token asks for help.
HelpRequested ==
    \E i \in 1..Len(flags) : FlagName(flags[i]) \in { << "h" >>, << "h", "e", "l", "p" >> }

\* C16 as stated: when the collected flag tokens contain a help flag or fail
\* to parse, Help of the resolved command runs, no other Help does, and the
\* action is not invoked (shown on resolved commands that have the Flags
\* method and vectors whose token at index 0 is not a flag token).
C16_HelpFlagRunsResolvedHelp ==
    (/\ pc \in { "returned", "exit" }
     /\ ~IsFlagToken(osArgs[1])
     /\ "Flags" \in Methods(cmd)
     /\ (HelpRequested \/ ParseFails))
        => /\ helpRan[cmd] >= 1
           /\ \A c \in Cmds \ { cmd } : helpRan[c] = 0
           /\ calls = << >>

\* C16 as amended: when parsing the collected flag tokens fails (an undeclared
\* -h or -help that the parser reaches included), Help of the resolved command
\* runs once, and whenever a Help has run it is the resolved command's and no
\* action is invoked.
C16_ParseFailureRunsResolvedHelp ==
    /\ (ScanEnded /\ ParseFails) => (helpRan[cmd] = 1 /\ calls = << >>)
    /\ \A c \in Cmds : helpRan[c] > 0 => (c = cmd /\ calls = << >>)

\* -h after a subcommand: the child's Help ran, not the root's.
C16_Witness ==
    /\ pc = "exit"
    /\ osArgs = << Prog, NameA, FlagH >>
    /\ mainCmd = "rootA"
    /\ cmd = "leafX"
    /\ flags = << FlagH >>
    /\ helpRan["leafX"] = 1
    /\ helpRan["rootA"] = 0
    /\ calls = << >>

\* The classification of cli.go 294-310 applied to the tokens of a vector v
\* alone, the token at its index 0 being v[1].
ClassifyOwn(st, head, v) ==
    LET subcommands == SubcommandsOf(st.cmd)
    IN
    IF IsFlagToken(head) THEN [ st EXCEPT !.flags = Append(st.flags, head) ]
    ELSE IF subcommands.isNil THEN [ st EXCEPT !.args = Append(st.args, head) ]
    ELSE IF head \in DOMAIN subcommands.map
      THEN [ st EXCEPT !.cmd  = subcommands.map[head],
                       !.name = IF Len(st.name) = 0 THEN head ELSE Join2(st.name, head) ]
    ELSE IF head # v[1] THEN [ st EXCEPT !.args = Append(st.args, head) ]
    ELSE st

RECURSIVE ScanOwn(_, _, _)
ScanOwn(st, toks, v) ==
    IF Len(toks) = 0 THEN st ELSE ScanOwn(ClassifyOwn(st, Head(toks), v), Tail(toks), v)

\* C17: an invocation resolves its command, origin, flags and positionals
\* from the argument vector given to it alone, whatever another invocation
\* in the process is given.
C17_ResolvesFromOwnVector ==
    (pc = "flags" \/ ScanEnded)
        => [ cmd |-> cmd, name |-> name, args |-> args, flags |-> flags ]
             = ScanOwn([ cmd |-> mainCmd, name |-> << >>, args |-> << >>, flags |-> << >> ],
                       argv, argv)

\* C18: for every non-empty argument vector and every command graph the scan
\* loop ends having reached the last token, one token per iteration, and does
\* not abort on the way (shown on the vectors whose token at index 0 is not
\* the empty string).
C18_OneIterationPerToken ==
    ((IF Len(osArgs) = 0 THEN FALSE ELSE Len(osArgs[1]) > 0) /\ pc # "scan")
        => (Len(tail) = 1 /\ ~(pc = "panic" /\ IndexOutOfRange))

====
